---------------------------- MODULE Spec2Model ----------------------------
(***************************************************************************)
(* SCS Toolkit (src/src/extension.ts): the structural formatter            *)
(* (formatScsText), the resource opener (scsTools.openResource), the       *)
(* colour provider (provideDocumentColors / provideColorPresentations)     *)
(* and the unknown-key diagnostics (validate).                             *)
(*                                                                         *)
(* Text is modelled as sequences of one-character strings, so that         *)
(* trimming, regular-expression matching, padding and joining are          *)
(* computed character by character as the code computes them.              *)
(***************************************************************************)
EXTENDS Integers, Sequences, FiniteSets, TLC

VARIABLES
    \* ---- formatScsText: inputs and locals
    lines,        \* input.split(/\r?\n/)
    opts,         \* the FormatOpts bundle of the call
    i,            \* loop index (1-based here)
    level, emptyRun, group, groupLevel, out,
    origin,       \* history: origin[k] = index of the input line behind out[k]
    flushes,      \* history: the span in out of each group flushGroup emitted
    fpc,          \* "loop" | "done" | "again"
    out2          \* formatScsText applied to the returned text

fvars == <<lines, opts, i, level, emptyRun, group, groupLevel, out, origin,
           flushes, fpc, out2>>

VARIABLES
    \* ---- scsTools.openResource: argument, environment and locals
    raw,          \* args.raw
    gameDataRoot, \* getGameDataPath(): a path, or NoPath when not configured
    fsKind,       \* the file system: what each candidate path is
    wsMatches,    \* what vscode.workspace.findFiles returns for the basename
    cleaned, candidates,
    ridx,         \* position of the for..of loop in candidates
    probed,       \* history: the paths given to fs.existsSync, in order
    searched,     \* history: findFiles was called
    opened,       \* history: the documents shown (at most one)
    reports,      \* history: showWarningMessage / showErrorMessage calls
    rpc           \* "start" | "probe" | "fallback" | "done"

rvars == <<raw, gameDataRoot, fsKind, wsMatches, cleaned, candidates, ridx,
           probed, searched, opened, reports, rpc>>

VARIABLES
    \* ---- the colour provider
    original,      \* the text of the colour literal (context.range)
    colors,        \* the colours provideDocumentColors reports for it
    presentations, \* the labels provideColorPresentations returns
    cpc            \* "start" | "parsed" | "presented"

cvars == <<original, colors, presentations, cpc>>

VARIABLES
    \* ---- the unknown-key diagnostics
    fileName,          \* document.fileName
    languageId,        \* document.languageId
    docLines,          \* the lines of the document
    enableDiagnostics, \* the scsTools.enableDiagnostics setting
    diags,             \* the diagnostics collection's entry for the document
    validated,         \* history: the return path of the last validate call
    vpc                \* "closed" | "open"

vvars == <<fileName, languageId, docLines, enableDiagnostics, diags, validated, vpc>>

VARIABLES
    \* ---- one line as the three line readers take it
    kline,        \* the text of the line
    byFormatter,  \* what the loop of formatScsText takes it for
    byValidator,  \* what the loop of validate takes it for
    byColors      \* what the loop of provideDocumentColors takes it for

kvars == <<kline, byFormatter, byValidator, byColors>>

vars == <<fvars, rvars, cvars, vvars, kvars>>

\* what an action of one component leaves alone
otherThanFormat == <<rvars, cvars, vvars, kvars>>
otherThanResolve == <<fvars, cvars, vvars, kvars>>
otherThanColor == <<fvars, rvars, vvars, kvars>>
otherThanValidate == <<fvars, rvars, cvars, kvars>>
otherThanClassify == <<fvars, rvars, cvars, vvars>>

-----------------------------------------------------------------------------
(* The components do not call one another: while one runs, the variables   *)
(* of the others stay at rest.                                             *)

\* let groupLevel: number | null = null
NoLevel == -1

\* gameDataRoot undefined
NoPath == << <<"?">> >>

FormatIdle ==
    /\ lines = <<>>
    /\ opts = <<>>
    /\ i = 0
    /\ level = 0
    /\ emptyRun = 0
    /\ group = <<>>
    /\ groupLevel = NoLevel
    /\ out = <<>>
    /\ origin = <<>>
    /\ flushes = <<>>
    /\ fpc = "idle"
    /\ out2 = <<>>

ResolveIdle ==
    /\ raw = <<>>
    /\ gameDataRoot = NoPath
    /\ fsKind = <<>>
    /\ wsMatches = <<>>
    /\ cleaned = <<>>
    /\ candidates = <<>>
    /\ ridx = 0
    /\ probed = <<>>
    /\ searched = FALSE
    /\ opened = <<>>
    /\ reports = <<>>
    /\ rpc = "idle"

ColorIdle ==
    /\ original = <<>>
    /\ colors = <<>>
    /\ presentations = <<>>
    /\ cpc = "idle"

\* no reader has looked at the line
NotRead == [kind |-> "unread", key |-> <<>>]

ClassifyIdle ==
    /\ kline = <<>>
    /\ byFormatter = NotRead
    /\ byValidator = NotRead
    /\ byColors = NotRead

ValidateIdle ==
    /\ fileName = <<>>
    /\ languageId = "none"
    /\ docLines = <<>>
    /\ enableDiagnostics = FALSE
    /\ diags = <<>>
    /\ validated = "none"
    /\ vpc = "idle"


-----------------------------------------------------------------------------
(* Characters and string primitives                                        *)

LowerCase == {"a","b","c","d","e","f","g","h","i","j","k","l","m",
              "n","o","p","q","r","s","t","u","v","w","x","y","z"}
UpperCase == {"A","B","C","D","E","F","G","H","I","J","K","L","M",
              "N","O","P","Q","R","S","T","U","V","W","X","Y","Z"}
DigitChars == {"0","1","2","3","4","5","6","7","8","9"}

\* \w
WordChars == LowerCase \cup UpperCase \cup DigitChars \cup {"_"}
\* [A-Za-z_]
IdentStartChars == LowerCase \cup UpperCase \cup {"_"}
\* [A-Za-z0-9_\.\-]
FmtKeyChars == WordChars \cup {".", "-"}
\* the \s characters that occur inside a line (no line terminators)
SpaceChars == {" ", "\t"}

RECURSIVE TrimStart(_)
TrimStart(s) ==
    IF s # <<>> /\ Head(s) \in SpaceChars THEN TrimStart(Tail(s)) ELSE s

RECURSIVE TrimEnd(_)
TrimEnd(s) ==
    IF s # <<>> /\ s[Len(s)] \in SpaceChars
    THEN TrimEnd(SubSeq(s, 1, Len(s) - 1))
    ELSE s

Trim(s) == TrimEnd(TrimStart(s))

StartsWith(s, p) == Len(s) >= Len(p) /\ SubSeq(s, 1, Len(p)) = p

EndsWith(s, p) == Len(s) >= Len(p) /\ SubSeq(s, Len(s) - Len(p) + 1, Len(s)) = p

\* length of the longest prefix of s made of characters of C
RECURSIVE PrefixLen(_, _)
PrefixLen(s, C) ==
    IF s # <<>> /\ Head(s) \in C THEN 1 + PrefixLen(Tail(s), C) ELSE 0

\* String.prototype.indexOf for a one-character needle, 1-based, 0 when absent
IndexOfChar(s, c) ==
    IF \E p \in 1..Len(s) : s[p] = c
    THEN CHOOSE p \in 1..Len(s) : s[p] = c /\ \A q \in 1..(p - 1) : s[q] # c
    ELSE 0

\* String.prototype.indexOf, 1-based, 0 when absent
IndexOf(s, needle) ==
    LET hits == {p \in 1..(Len(s) - Len(needle) + 1) :
                    SubSeq(s, p, p + Len(needle) - 1) = needle}
    IN  IF hits = {} THEN 0 ELSE CHOOSE p \in hits : \A q \in hits : p <= q

RECURSIVE Split(_, _)
Split(s, sep) ==
    LET p == IndexOfChar(s, sep)
    IN  IF p = 0 THEN <<s>>
        ELSE <<SubSeq(s, 1, p - 1)>> \o Split(SubSeq(s, p + 1, Len(s)), sep)

RECURSIVE Join(_, _)
Join(parts, sep) ==
    IF parts = <<>> THEN <<>>
    ELSE IF Len(parts) = 1 THEN parts[1]
    ELSE parts[1] \o sep \o Join(Tail(parts), sep)

RECURSIVE Repeat(_, _)
Repeat(s, n) == IF n <= 0 THEN <<>> ELSE s \o Repeat(s, n - 1)

PadEnd(s, n) == s \o [p \in 1..(n - Len(s)) |-> " "]

Range(f) == { f[x] : x \in DOMAIN f }

MaxOf(S) == CHOOSE x \in S : \A y \in S : y <= x

Max2(a, b) == IF a >= b THEN a ELSE b
Min2(a, b) == IF a <= b THEN a ELSE b

-----------------------------------------------------------------------------
(* formatScsText                                                           *)

SiiNunit == <<"S","i","i","N","u","n","i","t">>

\* const isComment = (t) => t.startsWith("#") || t.startsWith("//")
isComment(t) == StartsWith(t, <<"#">>) \/ StartsWith(t, <<"/", "/">>)

\* const isDirective = (t) => t.startsWith("@")
isDirective(t) == StartsWith(t, <<"@">>)

\* trimmed === "SiiNunit" || trimmed === "SiiNunit{" || trimmed === "SiiNunit {"
IsSiiNunitLine(t) ==
    \/ t = SiiNunit
    \/ t = SiiNunit \o <<"{">>
    \/ t = SiiNunit \o <<" ", "{">>

\* kvRe = /^([A-Za-z_][A-Za-z0-9_\.\-]*(?:\[\])?)\s*:\s*(.*)$/ , exec on t.
\* No character class of the key part overlaps what may follow it, so the
\* greedy match is the only match.
kvRe(t) ==
    LET k == IF t # <<>> /\ Head(t) \in IdentStartChars
             THEN 1 + PrefixLen(Tail(t), FmtKeyChars) ELSE 0
        br == IF StartsWith(SubSeq(t, k + 1, Len(t)), <<"[", "]">>) THEN 2 ELSE 0
        rest == TrimStart(SubSeq(t, k + br + 1, Len(t)))
    IN  IF k > 0 /\ rest # <<>> /\ Head(rest) = ":"
        THEN [matched |-> TRUE, key |-> SubSeq(t, 1, k + br),
              value |-> TrimStart(Tail(rest))]
        ELSE [matched |-> FALSE, key |-> <<>>, value |-> <<>>]

\* /^\((.*)\)$/ and parts = inner.split(",").map(trim); `(${parts.join(", ")})`
NormalizeTuple(value) ==
    IF Len(value) >= 2 /\ Head(value) = "(" /\ value[Len(value)] = ")"
    THEN LET inner == SubSeq(value, 2, Len(value) - 1)
             raws  == Split(inner, ",")
             parts == [p \in 1..Len(raws) |-> Trim(raws[p])]
         IN  <<"(">> \o Join(parts, <<",", " ">>) \o <<")">>
    ELSE value

\* s.replace(/\s*\{$/, " {")
ReplaceBraceTail(s) ==
    IF EndsWith(s, <<"{">>)
    THEN TrimEnd(SubSeq(s, 1, Len(s) - 1)) \o <<" ", "{">>
    ELSE s

\* mutant: the key is not padded
KvTextUnpadded(g, width) ==
    TrimEnd(g.indentStr \o g.key \o <<":", " ">> \o g.value)

\* `${g.indentStr}${paddedKey}: ${g.value}`.trimEnd()
KvText(g, width) ==
    TrimEnd(g.indentStr \o PadEnd(g.key, width) \o <<":", " ">> \o g.value)

\* the locals of one formatScsText call.  origin and flushes are history:
\* origin[k] is the index of the input line that out[k] was emitted for (a
\* group entry carries it as src), flushes the span in out of every group
\* that flushGroup emitted.
FmtStart ==
    [level |-> 0, emptyRun |-> 0, group |-> <<>>, groupLevel |-> NoLevel,
     out |-> <<>>, origin |-> <<>>, flushes |-> <<>>]

\* mutant: the emitted group is not cleared
flushGroupKeep(st, o) ==
    IF st.group = <<>> THEN st
    ELSE LET n      == Len(st.group)
             maxKey == MaxOf({Len(st.group[k].key) : k \in 1..n})
             lns    == [k \in 1..n |->
                          KvText(st.group[k], IF o.alignColons THEN maxKey ELSE 0)]
         IN  [st EXCEPT !.out = st.out \o lns,
                        !.origin = st.origin \o [k \in 1..n |-> st.group[k].src],
                        !.flushes = Append(@, [first |-> Len(st.out) + 1,
                                               last  |-> Len(st.out) + n])]

flushGroup(st, o) ==
    IF st.group = <<>> THEN st
    ELSE LET n      == Len(st.group)
             maxKey == MaxOf({Len(st.group[k].key) : k \in 1..n})
             lns    == [k \in 1..n |->
                          KvText(st.group[k], IF o.alignColons THEN maxKey ELSE 0)]
         IN  [st EXCEPT !.out = st.out \o lns,
                        !.origin = st.origin \o [k \in 1..n |-> st.group[k].src],
                        !.group = <<>>,
                        !.groupLevel = NoLevel,
                        !.flushes = Append(@, [first |-> Len(st.out) + 1,
                                               last  |-> Len(st.out) + n])]

Push(st, line, idx) ==
    [st EXCEPT !.out = Append(@, line), !.origin = Append(@, idx)]

\* mutant: the run is compared before it is incremented
BlankLineStaleCount(st, idx, o) ==
    LET f == flushGroup(st, o)
    IN  [f EXCEPT !.emptyRun = @ + 1,
                  !.out = IF f.emptyRun <= o.maxEmptyLines THEN Append(@, <<>>) ELSE @,
                  !.origin = IF f.emptyRun <= o.maxEmptyLines THEN Append(@, idx) ELSE @]

\* lines 702-708: a blank line
BlankLine(st, idx, o) ==
    LET f   == flushGroup(st, o)
        run == f.emptyRun + 1
    IN  [f EXCEPT !.emptyRun = run,
                  !.out = IF run <= o.maxEmptyLines THEN Append(@, <<>>) ELSE @,
                  !.origin = IF run <= o.maxEmptyLines THEN Append(@, idx) ELSE @]

\* mutant: the level is left as it is
DedentNever(lvl, trimmed) == lvl

\* lines 712: dedent if the line begins with a closing brace
Dedent(lvl, trimmed) ==
    IF StartsWith(trimmed, <<"}">>) THEN Max2(0, lvl - 1) ELSE lvl

\* lines 717-721
SiiNunitLine(st, idx, o) == Push(flushGroup(st, o), SiiNunit, idx)

\* lines 723-728 and 767-772: flush, emit at the current indentation, indent
\* after a trailing "{"
PassThrough(st, idx, indentStr, trimmed, o) ==
    LET f == Push(flushGroup(st, o), indentStr \o trimmed, idx)
    IN  [f EXCEPT !.level = IF EndsWith(trimmed, <<"{">>) THEN @ + 1 ELSE @]

\* mutant: a block-opening key-value line raises the level without flushing
KeyValueLineNoFlush(st, idx, indentStr, m, o) ==
    LET v0    == Trim(m.value)
        value == IF o.spaceAfterCommaInTuples THEN NormalizeTuple(v0) ELSE v0
        kv    == [indentStr |-> indentStr, key |-> m.key, value |-> value,
                  level |-> st.level, src |-> idx]
        s1    == IF st.groupLevel = NoLevel
                 THEN [st EXCEPT !.groupLevel = st.level, !.group = Append(@, kv)]
                 ELSE IF st.groupLevel = st.level
                 THEN [st EXCEPT !.group = Append(@, kv)]
                 ELSE [flushGroup(st, o) EXCEPT !.groupLevel = st.level,
                                                !.group = <<kv>>]
    IN  IF EndsWith(value, <<"{">>) THEN [s1 EXCEPT !.level = @ + 1] ELSE s1

\* lines 732-765
KeyValueLine(st, idx, indentStr, m, o) ==
    LET v0    == Trim(m.value)
        value == IF o.spaceAfterCommaInTuples THEN NormalizeTuple(v0) ELSE v0
        kv    == [indentStr |-> indentStr, key |-> m.key, value |-> value,
                  level |-> st.level, src |-> idx]
        s1    == IF st.groupLevel = NoLevel
                 THEN [st EXCEPT !.groupLevel = st.level, !.group = Append(@, kv)]
                 ELSE IF st.groupLevel = st.level
                 THEN [st EXCEPT !.group = Append(@, kv)]
                 ELSE [flushGroup(st, o) EXCEPT !.groupLevel = st.level,
                                                !.group = <<kv>>]
    IN  IF EndsWith(value, <<"{">>)
        THEN LET f == flushGroup(s1, o)
             IN  [f EXCEPT !.out[Len(f.out)] = ReplaceBraceTail(@),
                           !.level = @ + 1]
        ELSE s1

\* the body of the for loop (lines 696-773) for one input line
ProcessLine(st, idx, rawIn, o) ==
    LET rawLine == IF o.trimTrailingWhitespace THEN TrimEnd(rawIn) ELSE rawIn
        trimmed == Trim(rawLine)
    IN  IF trimmed = <<>> THEN BlankLine(st, idx, o)
        ELSE LET s0 == [st EXCEPT !.emptyRun = 0,
                                  !.level = Dedent(@, trimmed)]
                 indentStr == Repeat(o.indent, s0.level)
                 m == kvRe(trimmed)
             IN  IF IsSiiNunitLine(trimmed) THEN SiiNunitLine(s0, idx, o)
                 ELSE IF \/ trimmed = <<"{">> \/ trimmed = <<"}">>
                         \/ isComment(trimmed) \/ isDirective(trimmed)
                 THEN PassThrough(s0, idx, indentStr, trimmed, o)
                 ELSE IF m.matched THEN KeyValueLine(s0, idx, indentStr, m, o)
                 ELSE PassThrough(s0, idx, indentStr, trimmed, o)

\* out.join("\n") seen as the lines of the returned text: joining no line
\* gives the empty text, which is one empty line
TextOf(o) == IF o = <<>> THEN << <<>> >> ELSE o

RECURSIVE FormatFrom(_, _, _, _)
FormatFrom(st, ls, k, o) ==
    IF k > Len(ls) THEN TextOf(flushGroup(st, o).out)
    ELSE FormatFrom(ProcessLine(st, k, ls[k], o), ls, k + 1, o)

\* formatScsText(input, opts), input given by its lines
formatScsText(ls, o) == FormatFrom(FmtStart, ls, 1, o)

-----------------------------------------------------------------------------
(* The colour provider.  A number is an exact fraction [n, d], d > 0; a     *)
(* literal and a presentation label are sequences of characters.            *)

RECURSIVE Gcd(_, _)
Gcd(a, b) == IF b = 0 THEN a ELSE Gcd(b, a % b)

\* the fraction n/d in lowest terms
Frac(n, d) ==
    LET g == Gcd(IF n < 0 THEN 0 - n ELSE n, d)
    IN  [n |-> n \div g, d |-> d \div g]

FracEq(a, b) == a.n * b.d = b.n * a.d
FracLt(a, b) == a.n * b.d < b.n * a.d

One == Frac(1, 1)

\* function clamp01(v)
clamp01(v) ==
    IF FracLt(v, Frac(0, 1)) THEN Frac(0, 1)
    ELSE IF FracLt(One, v) THEN One
    ELSE v

DigitValue(c) == CHOOSE v \in 0..9 : <<"0","1","2","3","4","5","6","7","8","9">>[v + 1] = c

RECURSIVE DigitsToInt(_)
DigitsToInt(ds) ==
    IF ds = <<>> THEN 0
    ELSE 10 * DigitsToInt(SubSeq(ds, 1, Len(ds) - 1)) + DigitValue(ds[Len(ds)])

RECURSIVE Pow10(_)
Pow10(k) == IF k <= 0 THEN 1 ELSE 10 * Pow10(k - 1)

\* [+-]?\d*\.?\d+ matched against the whole of t
IsNumberToken(t) ==
    LET u == IF t # <<>> /\ Head(t) \in {"+", "-"} THEN Tail(t) ELSE t
        a == PrefixLen(u, DigitChars)
        f == SubSeq(u, a + 2, Len(u))
    IN  \/ a >= 1 /\ a = Len(u)
        \/ /\ a < Len(u)
           /\ u[a + 1] = "."
           /\ f # <<>>
           /\ PrefixLen(f, DigitChars) = Len(f)

\* parseFloat of a number token
parseFloat(t) ==
    LET neg == t # <<>> /\ Head(t) = "-"
        u == IF t # <<>> /\ Head(t) \in {"+", "-"} THEN Tail(t) ELSE t
        a == PrefixLen(u, DigitChars)
        f == SubSeq(u, a + 2, Len(u))
        mag == DigitsToInt(SubSeq(u, 1, a)) * Pow10(Len(f)) + DigitsToInt(f)
    IN  Frac(IF neg THEN 0 - mag ELSE mag, Pow10(Len(f)))

\* original.match(/[+-]?\d*\.?\d+/g): the matches from left to right
RECURSIVE MatchNumbers(_)
MatchNumbers(t) ==
    IF t = <<>> THEN <<>>
    ELSE LET sg == IF Head(t) \in {"+", "-"} THEN 1 ELSE 0
             u  == SubSeq(t, sg + 1, Len(t))
             a  == PrefixLen(u, DigitChars)
             b  == IF a < Len(u) /\ u[a + 1] = "."
                   THEN PrefixLen(SubSeq(u, a + 2, Len(u)), DigitChars) ELSE 0
             n  == IF b > 0 THEN sg + a + 1 + b
                   ELSE IF a > 0 THEN sg + a
                   ELSE 0
         IN  IF n > 0 THEN <<SubSeq(t, 1, n)>> \o MatchNumbers(SubSeq(t, n + 1, Len(t)))
             ELSE MatchNumbers(Tail(t))

\* tupleRe on a literal: "(" n "," n "," n [ "," n ] ")" with optional spaces;
\* the captured groups, or <<>> when the text is no tuple
tupleRe(t) ==
    IF Len(t) >= 2 /\ Head(t) = "(" /\ t[Len(t)] = ")"
    THEN LET raws  == Split(SubSeq(t, 2, Len(t) - 1), ",")
             parts == [k \in 1..Len(raws) |-> Trim(raws[k])]
         IN  IF Len(parts) \in {3, 4} /\ \A k \in 1..Len(parts) : IsNumberToken(parts[k])
             THEN parts ELSE <<>>
    ELSE <<>>

\* mutant: only the first three components decide the scale
TupleScale255FirstThree(r, g, b, aRaw) ==
    FracLt(One, r) \/ FracLt(One, g) \/ FracLt(One, b)

\* const scale255 = Math.max(r, g, b, aRaw) > 1.0
TupleScale255(r, g, b, aRaw) ==
    FracLt(One, r) \/ FracLt(One, g) \/ FracLt(One, b) \/ FracLt(One, aRaw)

Div255(v) == Frac(v.n, v.d * 255)

\* lines 363-383: the colour of one tuple match
TupleColor(m) ==
    LET r == parseFloat(m[1])
        g == parseFloat(m[2])
        b == parseFloat(m[3])
        aRaw == IF Len(m) >= 4 THEN parseFloat(m[4]) ELSE One
        scale255 == TupleScale255(r, g, b, aRaw)
        conv(v) == clamp01(IF scale255 THEN Div255(v) ELSE v)
    IN  [red |-> conv(r), green |-> conv(g), blue |-> conv(b), alpha |-> conv(aRaw)]

HexUpper == <<"0","1","2","3","4","5","6","7","8","9","A","B","C","D","E","F">>
HexLower == <<"0","1","2","3","4","5","6","7","8","9","a","b","c","d","e","f">>
HexChars == Range(HexUpper) \cup Range(HexLower)

HexValue(c) == CHOOSE v \in 0..15 : HexUpper[v + 1] = c \/ HexLower[v + 1] = c

\* parseInt(two hex digits, 16)
parseInt16(dd) == 16 * HexValue(dd[1]) + HexValue(dd[2])

\* hexRe = /#([0-9a-fA-F]{6})([0-9a-fA-F]{2})?/ on a literal: the groups
hexRe(t) ==
    LET k == IF t # <<>> /\ Head(t) = "#" THEN PrefixLen(Tail(t), HexChars) ELSE 0
    IN  IF k >= 8 THEN <<SubSeq(t, 2, 7), SubSeq(t, 8, 9)>>
        ELSE IF k >= 6 THEN <<SubSeq(t, 2, 7)>>
        ELSE <<>>

\* lines 387-400: the colour of one hex match
HexColor(h) ==
    LET byte(k) == Frac(parseInt16(SubSeq(h[1], k, k + 1)), 255)
    IN  [red |-> clamp01(byte(1)), green |-> clamp01(byte(3)),
         blue |-> clamp01(byte(5)),
         alpha |-> clamp01(IF Len(h) >= 2 THEN Frac(parseInt16(h[2]), 255) ELSE One)]

\* provideDocumentColors for the literal: tuples first, then hex codes
DocumentColors(t) ==
    (IF tupleRe(t) # <<>> THEN <<TupleColor(tupleRe(t))>> ELSE <<>>)
    \o (IF hexRe(t) # <<>> THEN <<HexColor(hexRe(t))>> ELSE <<>>)

RECURSIVE IntToChars(_)
IntToChars(n) ==
    IF n < 10 THEN <<HexUpper[n + 1]>>
    ELSE IntToChars(n \div 10) \o <<HexUpper[(n % 10) + 1]>>

\* Math.round(x) for x = v * k, v >= 0
RoundTimes(v, k) == (2 * v.n * k + v.d) \div (2 * v.d)

\* const to255 = (v) => Math.round(clamp01(v) * 255)
to255(v) == RoundTimes(clamp01(v), 255)

\* v * 10^k rounded to the nearest integer, by long division (v >= 0);
\* acc and rem are the digits so far and the remainder
RECURSIVE ScaledRound(_, _, _, _)
ScaledRound(acc, rem, d, k) ==
    IF k = 0 THEN (IF 2 * rem >= d THEN acc + 1 ELSE acc)
    ELSE ScaledRound(10 * acc + ((10 * rem) \div d), (10 * rem) % d, d, k - 1)

\* const fmtFloat = (v) => v.toFixed(6), v >= 0
fmtFloat(v) ==
    LET m == ScaledRound(v.n \div v.d, v.n % v.d, v.d, 6)
        frac == IntToChars(m % 1000000)
    IN  IntToChars(m \div 1000000) \o <<".">>
        \o [k \in 1..(6 - Len(frac)) |-> "0"] \o frac

\* mutant: no padStart
hex2NoPad(n) ==
    IF n < 16 THEN <<HexUpper[n + 1]>>
    ELSE <<HexUpper[(n \div 16) + 1], HexUpper[(n % 16) + 1]>>

\* const hex2 = (n) => n.toString(16).toUpperCase().padStart(2, "0")
hex2(n) == <<HexUpper[(n \div 16) + 1], HexUpper[(n % 16) + 1]>>

\* lines 410-416
has255(orig) ==
    LET mm == MatchNumbers(orig)
    IN  IF Len(mm) < 3 THEN FALSE
        ELSE \E k \in 1..Min2(Len(mm), 4) : FracLt(One, parseFloat(mm[k]))

\* lines 418-422
hadTupleAlpha(orig) == Len(MatchNumbers(orig)) >= 4 /\ StartsWith(orig, <<"(">>)

\* /#(?:[0-9a-fA-F]{8})/.test(original)
hadHexAlpha(orig) ==
    \E p \in 1..Len(orig) :
        orig[p] = "#" /\ PrefixLen(SubSeq(orig, p + 1, Len(orig)), HexChars) >= 8

\* Array.prototype.filter on the label seen before
RECURSIVE DedupLabels(_, _)
DedupLabels(ps, seen) ==
    IF ps = <<>> THEN <<>>
    ELSE IF Head(ps) \in seen THEN DedupLabels(Tail(ps), seen)
    ELSE <<Head(ps)>> \o DedupLabels(Tail(ps), seen \cup {Head(ps)})

\* provideColorPresentations(color, context): the labels, in order
ColorPresentations(color, text) ==
    LET orig == Trim(text)
        preferHex == IndexOfChar(orig, "#") > 0
        s255 == has255(orig)
        num(v) == IF s255 THEN IntToChars(to255(v)) ELSE fmtFloat(v)
        sep == <<",", " ">>
        tupleRGB == <<"(">> \o num(color.red) \o sep \o num(color.green) \o sep
                    \o num(color.blue) \o <<")">>
        tupleRGBA == <<"(">> \o num(color.red) \o sep \o num(color.green) \o sep
                     \o num(color.blue) \o sep \o num(color.alpha) \o <<")">>
        hexRGB == <<"#">> \o hex2(to255(color.red)) \o hex2(to255(color.green))
                  \o hex2(to255(color.blue))
        hexRGBA == hexRGB \o hex2(to255(color.alpha))
        wantsAlpha == \/ hadTupleAlpha(orig)
                      \/ hadHexAlpha(orig)
                      \/ FracLt(color.alpha, Frac(999, 1000))
        tup == IF wantsAlpha THEN tupleRGBA ELSE tupleRGB
        hex == IF wantsAlpha THEN hexRGBA ELSE hexRGB
        first == IF preferHex THEN <<hex, tup>> ELSE <<tup, hex>>
        more == IF wantsAlpha THEN <<tupleRGB, hexRGB>> ELSE <<tupleRGBA, hexRGBA>>
    IN  DedupLabels(first \o more, {})

\* the numbers tuple literals are written with
NumberPool ==
    { <<"0">>, <<"1">>, <<"0", ".", "5">>, <<"1", ".", "5">>, <<"-", "1">>,
      <<"1", "2", "8">>, <<"2", "5", "5">>,
      <<"0", ".", "3", "2", "0", "0", "0", "0">> }

TupleText(nums) == <<"(">> \o Join(nums, <<",", " ">>) \o <<")">>

TupleLiterals ==
    { TupleText(nums) : nums \in [1..3 -> NumberPool] \cup [1..4 -> NumberPool] }

\* the bytes hex literals are written with: every value for the first
\* channel, a few for the others
ByteSamples == {0, 10, 255}

HexText(bytes, digits) ==
    <<"#">> \o Join([k \in 1..Len(bytes) |->
                      <<digits[(bytes[k] \div 16) + 1], digits[(bytes[k] % 16) + 1]>>],
                    <<>>)

HexLiterals ==
    { HexText(<<r>> \o rest, digits) :
        r \in 0..255,
        rest \in [1..2 -> ByteSamples] \cup [1..3 -> ByteSamples],
        digits \in {HexUpper, HexLower} }

ColorInit ==
    /\ original \in TupleLiterals \cup HexLiterals
    /\ colors = <<>>
    /\ presentations = <<>>
    /\ cpc = "start"
    /\ FormatIdle
    /\ ResolveIdle
    /\ ValidateIdle
    /\ ClassifyIdle

\* provideDocumentColors on the literal
ProvideDocumentColors ==
    /\ cpc = "start"
    /\ colors' = DocumentColors(original)
    /\ cpc' = "parsed"
    /\ UNCHANGED <<original, presentations>>
    /\ UNCHANGED otherThanColor

\* provideColorPresentations for the reported colour, left as it is
ProvideColorPresentations ==
    /\ cpc = "parsed"
    /\ colors # <<>>
    /\ presentations' = ColorPresentations(colors[1], original)
    /\ cpc' = "presented"
    /\ UNCHANGED <<original, colors>>
    /\ UNCHANGED otherThanColor

ColorNext == ProvideDocumentColors \/ ProvideColorPresentations

SpecColor == ColorInit /\ [][ColorNext]_vars

-----------------------------------------------------------------------------
(* scsTools.openResource.  A path is a sequence of segments, each a         *)
(* sequence of characters; raw strings are sequences of characters.         *)

\* getModRoot() and the directory of the document the link is in
ModRoot == << <<"w">> >>
FromDir == << <<"w">>, <<"d">> >>
GameData == << <<"g">> >>

QuoteChars == {"'", "\""}

\* the global replace, scanning from position p: a quote matched by ^['\"]
\* (at the start) or by ['\"]$ (at the end) is dropped
RECURSIVE ReplaceQuotesFrom(_, _)
ReplaceQuotesFrom(s, p) ==
    IF p > Len(s) THEN <<>>
    ELSE IF s[p] \in QuoteChars /\ (p = 1 \/ p = Len(s))
    THEN ReplaceQuotesFrom(s, p + 1)
    ELSE <<s[p]>> \o ReplaceQuotesFrom(s, p + 1)

\* mutant: only the leading quote is dropped
StripLeadingQuote(s) == IF s # <<>> /\ Head(s) \in QuoteChars THEN Tail(s) ELSE s

\* raw.replace(/^['\"]|['\"]$/g, '')
StripQuotes(s) == ReplaceQuotesFrom(s, 1)

\* /^[a-zA-Z]:[\/]/.test(s)
IsDriveAbsolute(s) ==
    /\ Len(s) >= 3
    /\ s[1] \in LowerCase \cup UpperCase
    /\ s[2] = ":"
    /\ s[3] = "/"

\* path normalisation: empty and "." segments dropped, ".." removes the
\* segment before it (and nothing at the root)
RECURSIVE NormalizeFrom(_, _)
NormalizeFrom(acc, rest) ==
    IF rest = <<>> THEN acc
    ELSE LET h == Head(rest)
         IN  IF h = <<>> \/ h = <<".">> THEN NormalizeFrom(acc, Tail(rest))
             ELSE IF h = <<".", ".">>
             THEN NormalizeFrom(IF acc = <<>> THEN acc
                                ELSE SubSeq(acc, 1, Len(acc) - 1), Tail(rest))
             ELSE NormalizeFrom(Append(acc, h), Tail(rest))

\* path.join(root, rel) for an absolute root
PathJoin(root, rel) == NormalizeFrom(<<>>, root \o Split(rel, "/"))

\* path.resolve(dir, rel) for an absolute dir and a rel that is not absolute
PathResolve(dir, rel) == NormalizeFrom(<<>>, dir \o Split(rel, "/"))

\* the path a drive-absolute string names
DrivePath(s) == SelectSeq(Split(s, "/"), LAMBDA seg : seg # <<>>)

\* cleaned.replace(/^\//, '')
StripLeadingSlash(s) == IF s # <<>> /\ Head(s) = "/" THEN Tail(s) ELSE s

\* path.basename(s): the last segment, trailing separators ignored
BaseName(s) ==
    LET segs == SelectSeq(Split(s, "/"), LAMBDA seg : seg # <<>>)
    IN  IF segs = <<>> THEN <<>> ELSE segs[Len(segs)]

\* lines 220-241: the candidate list
BuildCandidates(c, gd) ==
    LET opt(q) == IF gd = NoPath THEN <<>> ELSE <<q>>
    IN  IF IsDriveAbsolute(c) THEN <<DrivePath(c)>>
        ELSE IF StartsWith(c, <<"/">>)
        THEN <<PathJoin(ModRoot, StripLeadingSlash(c))>>
             \o opt(PathJoin(gd, StripLeadingSlash(c)))
        ELSE (IF StartsWith(c, <<".", "/">>) \/ StartsWith(c, <<".", ".", "/">>)
              THEN <<PathResolve(FromDir, c)>> ELSE <<>>)
             \o <<PathResolve(FromDir, c), PathJoin(ModRoot, c)>>
             \o opt(PathJoin(gd, c))

\* what a path can be: nothing, a directory, a text file, or a regular file
\* that openTextDocument rejects (a binary such as .dds or .pmd)
PathKinds == {"absent", "dir", "text", "binary"}

\* fs.existsSync(p) && fs.statSync(p).isFile()
IsRegularFile(kind) == kind \in {"text", "binary"}

\* await vscode.workspace.openTextDocument(uri) rejects
OpenRejects(kind) == kind = "binary"

\* the raw strings of the links
RawPool ==
    { <<"/", "m", "/", "f">>,
      <<"m", "/", "f">>,
      <<".", "/", "f">>,
      <<".", ".", "/", "f">>,
      <<"C", ":", "/", "f">>,
      <<"\"", "/", "m", "/", "f", "\"">>,
      <<"'", "f">>,
      <<"f", "'">>,
      <<"/">>,
      <<"\"">>,
      <<"'", "\"">>,
      <<>> }

MaxMatches == 1

\* a workspace file of the searched name: where it is and whether it opens
MatchPool == { [dir |-> <<"w">>, opens |-> TRUE], [dir |-> <<"b">>, opens |-> FALSE] }

ResolveInit ==
    /\ raw \in RawPool
    /\ gameDataRoot \in {NoPath, GameData}
    /\ fsKind \in [Range(BuildCandidates(StripQuotes(raw), gameDataRoot)) -> PathKinds]
    \* the mod root, the directory of the document and the game data root
    \* are directories
    /\ \A p \in DOMAIN fsKind : p \in {ModRoot, FromDir, GameData} => fsKind[p] = "dir"
    /\ wsMatches \in UNION { [1..n -> MatchPool] : n \in 0..MaxMatches }
    /\ cleaned = <<>>
    /\ candidates = <<>>
    /\ ridx = 0
    /\ probed = <<>>
    /\ searched = FALSE
    /\ opened = <<>>
    /\ reports = <<>>
    /\ rpc = "start"
    /\ FormatIdle
    /\ ColorIdle
    /\ ValidateIdle
    /\ ClassifyIdle

\* lines 209-241: clean the raw string, return on an empty one, build the list
ResolveStart ==
    /\ rpc = "start"
    /\ cleaned' = StripQuotes(raw)
    /\ IF cleaned' = <<>>
       THEN /\ rpc' = "done"
            /\ UNCHANGED <<candidates, ridx>>
       ELSE /\ candidates' = BuildCandidates(cleaned', gameDataRoot)
            /\ ridx' = 1
            /\ rpc' = "probe"
    /\ UNCHANGED <<raw, gameDataRoot, fsKind, wsMatches, probed, searched,
                   opened, reports>>
    /\ UNCHANGED otherThanResolve

\* lines 244-252, one iteration: probe the candidate; open it and return when
\* it is a regular file; a rejected open is caught and ignored, and the loop
\* goes on
ProbeCandidate ==
    /\ rpc = "probe"
    /\ ridx <= Len(candidates)
    /\ probed' = Append(probed, candidates[ridx])
    /\ IF IsRegularFile(fsKind[candidates[ridx]])
       THEN IF OpenRejects(fsKind[candidates[ridx]])
            THEN \* catch { /* ignore */ }
                 /\ ridx' = ridx + 1
                 /\ UNCHANGED <<opened, rpc>>
            ELSE /\ opened' = Append(opened, candidates[ridx])
                 /\ rpc' = "done"
                 /\ UNCHANGED ridx
       ELSE /\ ridx' = ridx + 1
            /\ UNCHANGED <<opened, rpc>>
    /\ UNCHANGED <<raw, gameDataRoot, fsKind, wsMatches, cleaned, candidates,
                   searched, reports>>
    /\ UNCHANGED otherThanResolve

\* lines 254-268: the workspace search by file name, the warning when nothing
\* is found, the error message when opening the match throws
Fallback ==
    /\ rpc = "probe"
    /\ ridx > Len(candidates)
    /\ LET base == BaseName(StripLeadingSlash(cleaned))
       IN  /\ searched' = (base # <<>>)
           /\ IF base # <<>> /\ wsMatches # <<>>
              THEN IF wsMatches[1].opens
                   THEN /\ opened' = Append(opened, Append(wsMatches[1].dir, base))
                        /\ UNCHANGED reports
                   ELSE /\ reports' = Append(reports, "error")
                        /\ UNCHANGED opened
              ELSE /\ reports' = Append(reports, "warning")
                   /\ UNCHANGED opened
    /\ rpc' = "done"
    /\ UNCHANGED <<raw, gameDataRoot, fsKind, wsMatches, cleaned, candidates,
                   ridx, probed>>
    /\ UNCHANGED otherThanResolve

ResolveNext == ResolveStart \/ ProbeCandidate \/ Fallback

SpecResolve == ResolveInit /\ [][ResolveNext]_vars

\* the lines documents are made of: blank, whitespace-only, key-value (short
\* key, long key with stray spaces, block-opening, tuple value), braces,
\* a statement that closes a block and opens the next, comment, directive,
\* root declaration (alone and with its brace), other statement opening a
\* block
LinePool ==
    { <<>>,
      <<" ", "\t">>,
      <<"a", ":", "1">>,
      <<" ", "b", "b", "b", " ", ":", " ", "2", " ">>,
      <<"k", ":", "v", "{">>,
      <<"t", ":", "(", "1", ",", "2", ")">>,
      <<"{">>,
      <<"}">>,
      <<"}", "{">>,
      <<"#", "c">>,
      <<"@", "d">>,
      <<"S", "i", "i", "N", "u", "n", "i", "t">>,
      <<"S", "i", "i", "N", "u", "n", "i", "t", " ", "{">>,
      <<"x", " ", "{">> }

MaxLines == 3

Docs == UNION { [1..n -> LinePool] : n \in 1..MaxLines }

Tab == <<"\t">>

\* values of the scsTools.format.* settings as the user may have set them
SettingsPool ==
    { [alignColons |-> TRUE,  maxEmptyLines |-> 1,  trimTrailingWhitespace |-> TRUE,
       spaceAfterCommaInTuples |-> TRUE,  indent |-> Tab],
      [alignColons |-> TRUE,  maxEmptyLines |-> 0,  trimTrailingWhitespace |-> TRUE,
       spaceAfterCommaInTuples |-> TRUE,  indent |-> Tab],
      [alignColons |-> TRUE,  maxEmptyLines |-> 2,  trimTrailingWhitespace |-> TRUE,
       spaceAfterCommaInTuples |-> TRUE,  indent |-> <<" ", " ">>],
      [alignColons |-> TRUE,  maxEmptyLines |-> 1,  trimTrailingWhitespace |-> FALSE,
       spaceAfterCommaInTuples |-> FALSE, indent |-> Tab],
      [alignColons |-> FALSE, maxEmptyLines |-> 11, trimTrailingWhitespace |-> TRUE,
       spaceAfterCommaInTuples |-> TRUE,  indent |-> <<" ", " ">>],
      [alignColons |-> FALSE, maxEmptyLines |-> -1, trimTrailingWhitespace |-> TRUE,
       spaceAfterCommaInTuples |-> TRUE,  indent |-> Tab] }

\* Math.max(0, Math.min(10, cfg("scsTools.format.maxEmptyLines", 1)))
MaxEmptyLinesCap == 10

getFormatOpts(settings) ==
    [alignColons |-> settings.alignColons,
     maxEmptyLines |-> Max2(0, Min2(MaxEmptyLinesCap, settings.maxEmptyLines)),
     trimTrailingWhitespace |-> settings.trimTrailingWhitespace,
     spaceAfterCommaInTuples |-> settings.spaceAfterCommaInTuples,
     indent |-> settings.indent]

FmtLocals ==
    [level |-> level, emptyRun |-> emptyRun, group |-> group,
     groupLevel |-> groupLevel, out |-> out, origin |-> origin,
     flushes |-> flushes]

SetLocals(st) ==
    /\ level' = st.level
    /\ emptyRun' = st.emptyRun
    /\ group' = st.group
    /\ groupLevel' = st.groupLevel
    /\ out' = st.out
    /\ origin' = st.origin
    /\ flushes' = st.flushes

FormatInit ==
    /\ lines \in Docs
    /\ opts \in { getFormatOpts(s) : s \in SettingsPool }
    /\ i = 1
    /\ level = FmtStart.level
    /\ emptyRun = FmtStart.emptyRun
    /\ group = FmtStart.group
    /\ groupLevel = FmtStart.groupLevel
    /\ out = FmtStart.out
    /\ origin = FmtStart.origin
    /\ flushes = FmtStart.flushes
    /\ fpc = "loop"
    /\ out2 = <<>>
    /\ ResolveIdle
    /\ ColorIdle
    /\ ValidateIdle
    /\ ClassifyIdle

\* one iteration of the for loop
FormatLine ==
    /\ fpc = "loop"
    /\ i <= Len(lines)
    /\ SetLocals(ProcessLine(FmtLocals, i, lines[i], opts))
    /\ i' = i + 1
    /\ UNCHANGED <<lines, opts, fpc, out2>>
    /\ UNCHANGED otherThanFormat

\* lines 775-776: the final flushGroup and the return
FormatReturn ==
    /\ fpc = "loop"
    /\ i > Len(lines)
    /\ SetLocals(flushGroup(FmtLocals, opts))
    /\ fpc' = "done"
    /\ UNCHANGED <<lines, opts, i, out2>>
    /\ UNCHANGED otherThanFormat

\* the formatter run again on the text it returned, same options
FormatAgain ==
    /\ fpc = "done"
    /\ out2' = formatScsText(TextOf(out), opts)
    /\ fpc' = "again"
    /\ UNCHANGED <<lines, opts, i, level, emptyRun, group, groupLevel, out,
                   origin, flushes>>
    /\ UNCHANGED otherThanFormat

FormatNext == FormatLine \/ FormatReturn \/ FormatAgain

SpecFormat == FormatInit /\ [][FormatNext]_vars

-----------------------------------------------------------------------------
(* The unknown-key diagnostics: validate and the events that call it        *)

\* function isCommentOrEmpty(line)
isCommentOrEmpty(line) ==
    LET t == Trim(line)
    IN  \/ t = <<>>
        \/ StartsWith(t, <<"/", "/">>)
        \/ StartsWith(t, <<"/", "*">>)
        \/ StartsWith(t, <<"*">>)
        \/ StartsWith(t, <<"*", "/">>)

\* keyRe = /^\s*([A-Za-z_][\w]*)(\[\])?\s*:/ , exec on text; key is m[1]
keyRe(text) ==
    LET body == TrimStart(text)
        k == IF body # <<>> /\ Head(body) \in IdentStartChars
             THEN 1 + PrefixLen(Tail(body), WordChars) ELSE 0
        br == IF StartsWith(SubSeq(body, k + 1, Len(body)), <<"[", "]">>) THEN 2 ELSE 0
        rest == TrimStart(SubSeq(body, k + br + 1, Len(body)))
    IN  IF k > 0 /\ rest # <<>> /\ Head(rest) = ":"
        THEN [matched |-> TRUE, key |-> SubSeq(body, 1, k)]
        ELSE [matched |-> FALSE, key |-> <<>>]

\* RESERVED_SET: the names of reservedWords.js (a sample of them)
RESERVED_SET == { <<"n">>, <<"n", "a", "m", "e">> }

\* mutant: the column is taken in the trimmed text
KeyStartInTrimmed(text, key) == IndexOf(Trim(text), key) - 1

\* const start = text.indexOf(key), 0-based
KeyStart(text, key) == IndexOf(text, key) - 1

\* lines 608-630: the findings of line number ln (0-based) with this text
LineDiags(ln, text) ==
    LET t == Trim(text)
        m == keyRe(text)
    IN  IF isCommentOrEmpty(text) THEN <<>>
        ELSE IF StartsWith(t, <<"@">>) THEN <<>>
        ELSE IF StartsWith(t, SiiNunit) THEN <<>>
        ELSE IF StartsWith(t, <<"{">>) \/ StartsWith(t, <<"}">>) THEN <<>>
        ELSE IF ~m.matched THEN <<>>
        ELSE IF m.key \in RESERVED_SET THEN <<>>
        ELSE << [line |-> ln, start |-> KeyStart(text, m.key),
                 end |-> KeyStart(text, m.key) + Len(m.key), key |-> m.key] >>

RECURSIVE DiagsFrom(_, _)
DiagsFrom(ls, k) ==
    IF k > Len(ls) THEN <<>>
    ELSE LineDiags(k - 1, ls[k]) \o DiagsFrom(ls, k + 1)

UpperSeq == <<"A","B","C","D","E","F","G","H","I","J","K","L","M",
              "N","O","P","Q","R","S","T","U","V","W","X","Y","Z">>
LowerSeq == <<"a","b","c","d","e","f","g","h","i","j","k","l","m",
              "n","o","p","q","r","s","t","u","v","w","x","y","z">>

\* String.prototype.toLowerCase
ToLowerCase(t) ==
    [k \in 1..Len(t) |->
        IF t[k] \in UpperCase
        THEN LowerSeq[CHOOSE p \in 1..26 : UpperSeq[p] = t[k]]
        ELSE t[k]]

\* path.extname of a file name without directories
ExtName(name) ==
    LET dots == { p \in 2..Len(name) : name[p] = "." }
    IN  IF dots = {} THEN <<>> ELSE SubSeq(name, MaxOf(dots), Len(name))

\* mutant: the extension is not looked at
validateAnyKind(name, lang, ls, enabled, old) ==
    IF lang # "scs" THEN [path |-> "not-scs", diags |-> old]
    ELSE IF ~enabled THEN [path |-> "disabled", diags |-> <<>>]
    ELSE [path |-> "checked", diags |-> DiagsFrom(ls, 1)]

\* validate(document): the return path taken and the entry it leaves
validate(name, lang, ls, enabled, old) ==
    IF lang # "scs" THEN [path |-> "not-scs", diags |-> old]
    ELSE IF ToLowerCase(ExtName(name)) # <<".", "s", "i", "i">>
    THEN [path |-> "not-sii", diags |-> <<>>]
    ELSE IF ~enabled THEN [path |-> "disabled", diags |-> <<>>]
    ELSE [path |-> "checked", diags |-> DiagsFrom(ls, 1)]

\* the lines of the documents: blank, comment, directive, brace, root
\* declaration, known key, unknown keys (indented, with "[]"), a key with a
\* dot, a "#" comment, another statement
DocLinePool ==
    { <<>>,
      <<"/", "/", "c", ":">>,
      <<"@", "d", ":">>,
      <<"{">>,
      <<"S", "i", "i", "N", "u", "n", "i", "t">>,
      <<"n", ":", "1">>,
      <<"\t", " ", "z", "z", " ", ":", "z", "z">>,
      <<"u", "[", "]", ":", "3">>,
      <<"a", ".", "b", ":", "1">>,
      <<"#", "k", ":", "1">>,
      <<"x", " ", "y">> }

MaxDocLines == 2

FileNames ==
    { <<"a", ".", "s", "i", "i">>, <<"a", ".", "S", "I", "I">>,
      <<"a", ".", "s", "u", "i">> }

ValidateInit ==
    /\ fileName \in FileNames
    /\ languageId \in {"scs", "plaintext"}
    /\ docLines \in UNION { [1..n -> DocLinePool] : n \in 1..MaxDocLines }
    /\ enableDiagnostics \in BOOLEAN
    /\ diags = <<>>
    /\ validated = "none"
    /\ vpc = "closed"
    /\ FormatIdle
    /\ ResolveIdle
    /\ ColorIdle
    /\ ClassifyIdle

RunValidate(ls) ==
    LET v == validate(fileName, languageId, ls, enableDiagnostics, diags)
    IN  /\ diags' = v.diags
        /\ validated' = v.path

\* onDidOpenTextDocument(validate)
OpenTextDocument ==
    /\ vpc = "closed"
    /\ vpc' = "open"
    /\ RunValidate(docLines)
    /\ UNCHANGED <<fileName, languageId, docLines, enableDiagnostics>>
    /\ UNCHANGED otherThanValidate

\* the edits of a document: a line replaced, a line appended, the last line
\* removed
Edits(ls) ==
    UNION { { [ls EXCEPT ![k] = l] : l \in DocLinePool \ {ls[k]} } : k \in 1..Len(ls) }
    \cup (IF Len(ls) < MaxDocLines THEN { Append(ls, l) : l \in DocLinePool } ELSE {})
    \cup (IF Len(ls) > 1 THEN { SubSeq(ls, 1, Len(ls) - 1) } ELSE {})

\* onDidChangeTextDocument(e => validate(e.document)) after an edit
ChangeTextDocument ==
    /\ vpc = "open"
    /\ \E ls \in Edits(docLines) :
          /\ docLines' = ls
          /\ RunValidate(ls)
    /\ UNCHANGED <<fileName, languageId, enableDiagnostics, vpc>>
    /\ UNCHANGED otherThanValidate

\* onDidCloseTextDocument(doc => diagnostics.delete(doc.uri))
CloseTextDocument ==
    /\ vpc = "open"
    /\ vpc' = "closed"
    /\ diags' = <<>>
    /\ UNCHANGED <<fileName, languageId, docLines, enableDiagnostics, validated>>
    /\ UNCHANGED otherThanValidate

\* the user switches scsTools.enableDiagnostics; nothing is validated again
ChangeSetting ==
    /\ enableDiagnostics' = ~enableDiagnostics
    /\ UNCHANGED <<fileName, languageId, docLines, diags, validated, vpc>>
    /\ UNCHANGED otherThanValidate

ValidateNext ==
    OpenTextDocument \/ ChangeTextDocument \/ CloseTextDocument \/ ChangeSetting

SpecValidate == ValidateInit /\ [][ValidateNext]_vars

-----------------------------------------------------------------------------
(* What each of the three loops over the lines takes a line for            *)

\* lines 697-772: the branch formatScsText takes for the line, and the key
\* (m[1]) when it is the key-value branch
FormatterReads(line, o) ==
    LET rawLine == IF o.trimTrailingWhitespace THEN TrimEnd(line) ELSE line
        trimmed == Trim(rawLine)
        m == kvRe(trimmed)
    IN  IF trimmed = <<>> THEN [kind |-> "blank", key |-> <<>>]
        ELSE IF IsSiiNunitLine(trimmed) THEN [kind |-> "root", key |-> <<>>]
        ELSE IF trimmed = <<"{">> \/ trimmed = <<"}">> THEN [kind |-> "brace", key |-> <<>>]
        ELSE IF isComment(trimmed) THEN [kind |-> "comment", key |-> <<>>]
        ELSE IF isDirective(trimmed) THEN [kind |-> "directive", key |-> <<>>]
        ELSE IF m.matched THEN [kind |-> "keyvalue", key |-> m.key]
        ELSE [kind |-> "other", key |-> <<>>]

\* lines 608-618: the test of validate that the line stops at, and the key
\* (m[1]) when it reaches the vocabulary lookup
ValidatorReads(line) ==
    LET t == Trim(line)
        m == keyRe(line)
    IN  IF t = <<>> THEN [kind |-> "blank", key |-> <<>>]
        ELSE IF isCommentOrEmpty(line) THEN [kind |-> "comment", key |-> <<>>]
        ELSE IF StartsWith(t, <<"@">>) THEN [kind |-> "directive", key |-> <<>>]
        ELSE IF StartsWith(t, SiiNunit) THEN [kind |-> "root", key |-> <<>>]
        ELSE IF StartsWith(t, <<"{">>) \/ StartsWith(t, <<"}">>)
        THEN [kind |-> "brace", key |-> <<>>]
        ELSE IF m.matched THEN [kind |-> "keyvalue", key |-> m.key]
        ELSE [kind |-> "other", key |-> <<>>]

\* lines 351-358: the test of provideDocumentColors that the line stops at,
\* and the key (km[1]) when it has one
ColorsReads(line) ==
    LET m == keyRe(line)
    IN  IF Trim(line) = <<>> THEN [kind |-> "blank", key |-> <<>>]
        ELSE IF isCommentOrEmpty(line) THEN [kind |-> "comment", key |-> <<>>]
        ELSE IF m.matched THEN [kind |-> "keyvalue", key |-> m.key]
        ELSE [kind |-> "other", key |-> <<>>]

\* the lines read: those of the formatter and of the validator, a block
\* comment, a comment continuation with a colon, a colour key
ReadPool ==
    LinePool \cup DocLinePool \cup
    { <<"/", "*", "c">>,
      <<"*", "k", ":", "1">>,
      <<"c", "o", "l", "o", "r", ":", "1">> }

ClassifyInit ==
    /\ kline \in ReadPool
    /\ byFormatter = NotRead
    /\ byValidator = NotRead
    /\ byColors = NotRead
    /\ FormatIdle
    /\ ResolveIdle
    /\ ColorIdle
    /\ ValidateIdle

\* the formatter comes to the line, under any of the settings
FormatterReadsLine ==
    /\ kline \in ReadPool
    /\ byFormatter = NotRead
    /\ \E s \in SettingsPool : byFormatter' = FormatterReads(kline, getFormatOpts(s))
    /\ UNCHANGED <<kline, byValidator, byColors>>
    /\ UNCHANGED otherThanClassify

\* validate comes to the line
ValidatorReadsLine ==
    /\ kline \in ReadPool
    /\ byValidator = NotRead
    /\ byValidator' = ValidatorReads(kline)
    /\ UNCHANGED <<kline, byFormatter, byColors>>
    /\ UNCHANGED otherThanClassify

\* provideDocumentColors comes to the line
ColorsReadsLine ==
    /\ kline \in ReadPool
    /\ byColors = NotRead
    /\ byColors' = ColorsReads(kline)
    /\ UNCHANGED <<kline, byFormatter, byValidator>>
    /\ UNCHANGED otherThanClassify

ClassifyNext == FormatterReadsLine \/ ValidatorReadsLine \/ ColorsReadsLine

SpecClassify == ClassifyInit /\ [][ClassifyNext]_vars

-----------------------------------------------------------------------------
(* Properties of the formatter                                             *)

\* C1: formatting the formatter's output again, with the same options, gives
\* the same text character for character.
C1_Idempotent == fpc = "again" => out2 = TextOf(out)

\* a line that is not blank and not a key-value line: a comment, a directive,
\* a brace, a root declaration or any other statement
IsVerbatimLine(ln) == Trim(ln) # <<>> /\ ~kvRe(Trim(ln)).matched

\* C2: every comment, directive, bare brace or unrecognized line that has been
\* processed has an output line, and that output line has the same trimmed
\* text as the input line: only the indentation differs.
C2_ContentPreserved ==
    /\ \A k \in 1..Len(out) :
          IsVerbatimLine(lines[origin[k]]) => Trim(out[k]) = Trim(lines[origin[k]])
    /\ \A j \in 1..(i - 1) :
          IsVerbatimLine(lines[j]) => \E k \in 1..Len(out) : origin[k] = j

\* the column of the first colon, the indentation and the key of an output line
ColonCol(l) == IndexOfChar(l, ":")
IndentLen(l) == PrefixLen(l, SpaceChars)
KeyLen(l) == Len(kvRe(Trim(l)).key)

\* C3: with alignColons, all lines of an emitted alignment group have the same
\* indentation and their first colon in the same column, which is right after
\* the longest key of the group; the last line may open a block.
C3_ColonsAligned ==
    opts.alignColons =>
        \A f \in 1..Len(flushes) :
            LET span == flushes[f].first .. flushes[f].last
            IN  /\ \A a \in span : ColonCol(out[a]) > 0
                /\ \A a, b \in span :
                      /\ ColonCol(out[a]) = ColonCol(out[b])
                      /\ IndentLen(out[a]) = IndentLen(out[b])
                /\ \A a \in span :
                      IndentLen(out[a]) + KeyLen(out[a]) < ColonCol(out[a])
                /\ \E a \in span :
                      IndentLen(out[a]) + KeyLen(out[a]) + 1 = ColonCol(out[a])

\* a group of two keys of different lengths, the last line opening a block,
\* was emitted with alignColons
C3_Witness ==
    /\ opts.alignColons
    /\ fpc = "done"
    /\ \E f \in 1..Len(flushes) :
          /\ flushes[f].last > flushes[f].first
          /\ KeyLen(out[flushes[f].first]) # KeyLen(out[flushes[f].last])
          /\ EndsWith(out[flushes[f].last], <<"{">>)

\* the lengths of the maximal runs of blank lines of a document, in order
RECURSIVE BlankRunsFrom(_, _, _)
BlankRunsFrom(ls, k, cur) ==
    LET closed == IF cur > 0 THEN <<cur>> ELSE <<>>
    IN  IF k > Len(ls) THEN closed
        ELSE IF Trim(ls[k]) = <<>> THEN BlankRunsFrom(ls, k + 1, cur + 1)
        ELSE closed \o BlankRunsFrom(ls, k + 1, 0)

BlankRuns(ls) == BlankRunsFrom(ls, 1, 0)

Positive(n) == n > 0

\* C4: a run of n blank input lines gives exactly min(n, maxEmptyLines) blank
\* output lines (runs are kept apart by the non-blank lines between them), a
\* blank output line is empty, and at no point of the pass does the output
\* hold more than maxEmptyLines blank lines in a row.
C4_BlankClamp ==
    /\ opts.maxEmptyLines \in 0..MaxEmptyLinesCap
    /\ \A k \in 1..Len(out) : Trim(out[k]) = <<>> => out[k] = <<>>
    /\ LET outRuns == BlankRuns(out)
       IN  \A k \in 1..Len(outRuns) : outRuns[k] <= opts.maxEmptyLines
    /\ fpc = "done" =>
          LET runs == BlankRuns(lines)
              clamped == [k \in 1..Len(runs) |-> Min2(runs[k], opts.maxEmptyLines)]
          IN  BlankRuns(out) = SelectSeq(clamped, Positive)

\* three blank input lines with maxEmptyLines = 1 gave exactly one blank line
C4_Witness ==
    /\ fpc = "done"
    /\ opts.maxEmptyLines = 1
    /\ BlankRuns(lines) = <<3>>
    /\ out = << <<>> >>

\* this step is the loop iteration for line i, whose trimmed text starts
\* with "}"
ClosingLineStep ==
    /\ fpc = "loop"
    /\ i <= Len(lines)
    /\ i' = i + 1
    /\ StartsWith(Trim(lines[i]), <<"}">>)

\* C14: the level is never negative; and the iteration for a line starting
\* with "}" emits, after the lines of the pending group, exactly one line: the
\* trimmed text behind max(0, level - 1) copies of the indent unit, level
\* being the level before the iteration; the group is empty afterwards.
C14_LevelAndClosingLine ==
    /\ [](level >= 0)
    /\ [][ClosingLineStep =>
            LET lower == IF level - 1 > 0 THEN level - 1 ELSE 0
            IN  /\ Len(out') = Len(out) + Len(group) + 1
                /\ SubSeq(out', 1, Len(out)) = out
                /\ origin' = origin \o [k \in 1..Len(group) |-> group[k].src] \o <<i>>
                /\ out'[Len(out')] = Repeat(opts.indent, lower) \o Trim(lines[i])
                /\ group' = <<>>
                /\ level' \in {lower, lower + 1}]_vars

\* C14 witness: a "}" after a block with a pending key-value line is emitted
\* at level 0, after the flushed line
C14_Witness ==
    /\ fpc = "loop"
    /\ i = 4
    /\ lines = << <<"x", " ", "{">>, <<"a", ":", "1">>, <<"}">> >>
    /\ opts.indent = Tab
    /\ out = << <<"x", " ", "{">>, <<"\t", "a", ":", " ", "1">>, <<"}">> >>
    /\ level = 0

Accounted == origin \o [g \in 1..Len(group) |-> group[g].src]

\* the input lines the pass has gone through
Processed == 1..(IF fpc = "loop" THEN i - 1 ELSE Len(lines))

\* C16: the input lines behind the output lines, the pending entries last,
\* are processed lines in strictly increasing order, so none is emitted twice
\* and the order is kept; every non-blank processed line is among them; the
\* returned output line of a key-value line starts with its key; and when
\* the pass has returned nothing is pending.
C16_LineConservation ==
    fpc \in {"loop", "done", "again"} =>
        /\ Len(origin) = Len(out)
        /\ \A k \in 1..Len(Accounted) : Accounted[k] \in Processed
        /\ \A k \in 1..(Len(Accounted) - 1) : Accounted[k] < Accounted[k + 1]
        /\ \A j \in Processed :
              (\E p \in 1..Len(lines[j]) : lines[j][p] \notin SpaceChars) =>
                  \E k \in 1..Len(Accounted) : Accounted[k] = j
        /\ fpc = "done" =>
              /\ group = <<>>
              /\ \A k \in 1..Len(origin) :
                    LET m == kvRe(Trim(lines[origin[k]]))
                    IN  m.matched => StartsWith(Trim(out[k]), m.key)
        /\ fpc = "again" => group = <<>>

\* C16 witness: a key-value line that follows a pending one and opens a
\* block, then a key-value line still pending at the end of the input: three
\* lines in, three lines out
C16_Witness ==
    /\ fpc = "done"
    /\ opts.alignColons
    /\ opts.indent = Tab
    /\ lines = << <<"a", ":", "1">>, <<"k", ":", "v", "{">>, <<"a", ":", "1">> >>
    /\ out = << <<"a", ":", " ", "1">>, <<"k", ":", " ", "v", " ", "{">>,
                <<"\t", "a", ":", " ", "1">> >>
    /\ Len(flushes) = 2

\* the lines ending in "{" that are still open after line k, innermost first,
\* by stack discipline on the text: a line starting with "}" closes the
\* innermost open one, a line ending in "{" opens one
RECURSIVE OpenersAfter(_, _)
OpenersAfter(ls, k) ==
    IF k = 0 THEN <<>>
    ELSE LET before == OpenersAfter(ls, k - 1)
             t      == Trim(ls[k])
             popped == IF StartsWith(t, <<"}">>) /\ before # <<>>
                       THEN Tail(before) ELSE before
         IN  IF EndsWith(t, <<"{">>) THEN <<k>> \o popped ELSE popped

\* C18: when the loop comes, at level >= 1, to a line starting with "}" that
\* closes a block opened by an earlier line ending in "{", the line is
\* emitted with the indentation of that opening line's output, and every
\* non-blank output line of the lines between them is at least one indent
\* unit deeper.
C18_MatchingBrace ==
    [][(ClosingLineStep /\ level >= 1 /\ OpenersAfter(lines, i - 1) # <<>>) =>
          LET opener == Head(OpenersAfter(lines, i - 1))
          IN  \A ko \in 1..Len(out') : origin'[ko] = opener =>
                  /\ IndentLen(out'[Len(out')]) = IndentLen(out'[ko])
                  /\ \A k \in 1..Len(out') :
                        (origin'[k] > opener /\ origin'[k] < i /\ out'[k] # <<>>) =>
                            IndentLen(out'[k]) >= IndentLen(out'[ko]) + Len(opts.indent)]_vars

-----------------------------------------------------------------------------
(* Properties of the resource opener                                       *)

\* a sequence without its immediate repetitions
RECURSIVE Dedup(_)
Dedup(q) ==
    IF Len(q) <= 1 THEN q
    ELSE IF q[1] = q[2] THEN Dedup(Tail(q))
    ELSE <<q[1]>> \o Dedup(Tail(q))

\* positions of the candidates that exist and are regular files
RegularAt == { k \in 1..Len(candidates) : IsRegularFile(fsKind[candidates[k]]) }

\* C5: candidates are probed strictly in list order; the list is the single
\* path of a drive-letter string, mod root then game data root for a string
\* starting with "/", source directory then mod root then game data root for
\* a relative string; the first candidate that is a regular file is opened and
\* nothing is tried after it; the workspace search runs only when no candidate
\* is a regular file.
C5_PriorityOrder ==
    /\ probed = SubSeq(candidates, 1, Len(probed))
    /\ \A k \in 1..(Len(probed) - 1) : ~IsRegularFile(fsKind[probed[k]])
    /\ candidates # <<>> =>
          LET gd == IF gameDataRoot = NoPath THEN <<>>
                    ELSE <<gameDataRoot \o Split(StripLeadingSlash(cleaned), "/")>>
              norm == [k \in 1..Len(gd) |-> NormalizeFrom(<<>>, gd[k])]
          IN  IF IsDriveAbsolute(cleaned) THEN Len(candidates) = 1
              ELSE IF Head(cleaned) = "/"
              THEN candidates = <<PathJoin(ModRoot, Tail(cleaned))>> \o norm
              ELSE Dedup(candidates) =
                     Dedup(<<PathResolve(FromDir, cleaned), PathJoin(ModRoot, cleaned)>>
                           \o norm)
    /\ (rpc = "done" /\ candidates # <<>>) =>
          IF RegularAt = {}
          THEN probed = candidates /\ Len(opened) <= 1
          ELSE LET k == CHOOSE x \in RegularAt : \A y \in RegularAt : x <= y
               IN  probed = SubSeq(candidates, 1, k) /\ opened = <<candidates[k]>>
    /\ searched => RegularAt = {}

\* the string without one quote at its start, if it has one, and, of what is
\* left, without one quote at its end, if it has one
WithoutOuterQuotes(s) ==
    LET a == IF s # <<>> /\ Head(s) \in QuoteChars THEN Tail(s) ELSE s
    IN  IF a # <<>> /\ a[Len(a)] \in QuoteChars THEN SubSeq(a, 1, Len(a) - 1) ELSE a

\* C12: once the command has cleaned the raw string, the cleaned string is
\* the raw one less one leading quote (' or ") if present and one trailing
\* quote if present; the candidates are built from it, so a raw string
\* wrapped in quotes is resolved as the string between the quotes.
C12_QuoteCleanup ==
    rpc \in {"probe", "done"} =>
        /\ cleaned = WithoutOuterQuotes(raw)
        /\ candidates # <<>> =>
              candidates = BuildCandidates(WithoutOuterQuotes(raw), gameDataRoot)
        /\ (Len(raw) >= 2 /\ Head(raw) \in QuoteChars /\ raw[Len(raw)] \in QuoteChars) =>
              cleaned = SubSeq(raw, 2, Len(raw) - 1)

\* C12 witness: "/m/f" wrapped in double quotes is opened under the mod root
C12_Witness ==
    /\ rpc = "done"
    /\ raw = <<"\"", "/", "m", "/", "f", "\"">>
    /\ cleaned = <<"/", "m", "/", "f">>
    /\ opened = << <<<<"w">>, <<"m">>, <<"f">>>> >>

\* the workspace search finds a file of the name the raw string ends in
FallbackFinds ==
    /\ BaseName(StripLeadingSlash(WithoutOuterQuotes(raw))) # <<>>
    /\ wsMatches # <<>>

\* C13: when the invocation has ended, at most one report (warning or error)
\* was issued; and when no resource was opened because no candidate is a
\* regular file and the workspace search finds nothing, the one report is the
\* not-found warning.
C13_Outcome ==
    rpc = "done" =>
        /\ Len(reports) <= 1
        /\ (opened = <<>> /\ RegularAt = {} /\ ~FallbackFinds) => reports = <<"warning">>

-----------------------------------------------------------------------------
(* Properties of the colour provider                                       *)

\* the number tokens of the literal when the tuple detector accepts it
TupleNums == tupleRe(original)

Exceeds1(tok) == FracLt(One, parseFloat(tok))

\* the literal has been parsed and gave a colour
Parsed == cpc \in {"parsed", "presented"} /\ colors # <<>>

\* C6: a tuple literal with exactly three components is reported with
\* alpha 1, in either scale.
C6_AlphaDefault ==
    (cpc \in {"parsed", "presented"} /\ Len(TupleNums) = 3) =>
        colors # <<>> /\ FracEq(colors[1].alpha, One)

\* the colour channel a component gives when the tuple is read in 0-255
\* (scaled) or in 0-1
ChannelOf(tok, scaled) ==
    clamp01(IF scaled THEN Div255(parseFloat(tok)) ELSE parseFloat(tok))

\* the components (alpha included when written) are read with this scale
ReadWithScale(scaled) ==
    /\ FracEq(colors[1].red, ChannelOf(TupleNums[1], scaled))
    /\ FracEq(colors[1].green, ChannelOf(TupleNums[2], scaled))
    /\ FracEq(colors[1].blue, ChannelOf(TupleNums[3], scaled))
    /\ Len(TupleNums) = 4 => FracEq(colors[1].alpha, ChannelOf(TupleNums[4], scaled))

\* the components of a tuple label, and its two number styles
LabelParts(lab) ==
    LET raws == Split(SubSeq(lab, 2, Len(lab) - 1), ",")
    IN  [k \in 1..Len(raws) |-> Trim(raws[k])]

IsTupleLabel(lab) == Len(lab) >= 2 /\ Head(lab) = "(" /\ lab[Len(lab)] = ")"

IsIntegerText(t) == t # <<>> /\ PrefixLen(t, DigitChars) = Len(t)

IsFixed6Text(t) ==
    LET a == PrefixLen(t, DigitChars)
    IN  /\ a >= 1
        /\ Len(t) = a + 7
        /\ t[a + 1] = "."
        /\ PrefixLen(SubSeq(t, a + 2, Len(t)), DigitChars) = 6

\* C7 as stated: the tuple is read in 0-255 exactly when one of its first
\* three components exceeds 1; the alpha component has no say.
C7_ScaleFromFirstThree ==
    (Parsed /\ TupleNums # <<>>) =>
        ReadWithScale(\E k \in 1..3 : Exceeds1(TupleNums[k]))

\* C7 as the code has it: the tuple is read in 0-255 (each written component
\* divided by 255) exactly when at least one written component, the alpha
\* included, exceeds 1; the presentations use integers in exactly that case.
C7_ScaleFromAnyComponent ==
    (Parsed /\ TupleNums # <<>>) =>
        LET scaled == \E k \in 1..Len(TupleNums) : Exceeds1(TupleNums[k])
        IN  /\ ReadWithScale(scaled)
            /\ cpc = "presented" =>
                  /\ IsTupleLabel(presentations[1])
                  /\ scaled <=> \A k \in 1..Len(LabelParts(presentations[1])) :
                                   IsIntegerText(LabelParts(presentations[1])[k])

\* a tuple whose first three components are at most 1 and whose alpha is
\* above 1 was read in 0-255: its red 0.5 became 0.5/255
C7_Witness ==
    /\ cpc = "presented"
    /\ Len(TupleNums) = 4
    /\ \A k \in 1..3 : ~Exceeds1(TupleNums[k])
    /\ Exceeds1(TupleNums[4])
    /\ colors[1].red = Frac(1, 510)

\* C8: the first presentation of an accepted tuple literal, for the colour as
\* parsed, is a tuple in the scale the literal was read in (integers for
\* 0-255, six decimals for 0-1); it has a fourth component exactly when the
\* literal had one or the alpha is not 1; a three-component literal gets none.
C8_TupleRoundTrip ==
    (cpc = "presented" /\ TupleNums # <<>>) =>
        LET lab == presentations[1]
            parts == LabelParts(lab)
            scaled == \E k \in 1..Len(TupleNums) : Exceeds1(TupleNums[k])
        IN  /\ IsTupleLabel(lab)
            /\ Len(parts) \in {3, 4}
            /\ \A k \in 1..Len(parts) :
                  IF scaled THEN IsIntegerText(parts[k]) ELSE IsFixed6Text(parts[k])
            /\ Len(parts) = 4 <=>
                  (Len(TupleNums) = 4 \/ ~FracEq(colors[1].alpha, One))
            /\ Len(TupleNums) = 3 => Len(parts) = 3

HexUpperCase(t) ==
    [k \in 1..Len(t) |-> IF t[k] \in HexChars THEN HexUpper[HexValue(t[k]) + 1] ELSE t[k]]

\* C9: the first presentation of a #RRGGBB or #RRGGBBAA literal, for the
\* colour as parsed, is the literal itself with its digits in upper case:
\* six digits stay six, eight stay eight.
C9_HexRoundTrip ==
    (cpc = "presented" /\ hexRe(original) # <<>>) =>
        /\ Len(original) \in {7, 9}
        /\ presentations[1] = HexUpperCase(original)

\* a lower-case six-digit literal with a byte below 16 came back in upper
\* case, zero-padded, without alpha
C9_Witness ==
    /\ cpc = "presented"
    /\ original = <<"#", "0", "a", "f", "f", "0", "0">>
    /\ presentations[1] = <<"#", "0", "A", "F", "F", "0", "0">>

-----------------------------------------------------------------------------
(* Properties of the unknown-key diagnostics *)

\* where the key of a key-value line stands, told from the line's layout:
\* leading whitespace, an identifier, an optional "[]", optional whitespace
\* and a colon
KeySpan(text) ==
    LET lead == PrefixLen(text, SpaceChars)
        body == SubSeq(text, lead + 1, Len(text))
        len == IF body # <<>> /\ Head(body) \in IdentStartChars
               THEN 1 + PrefixLen(Tail(body), WordChars) ELSE 0
        after == SubSeq(body, len + 1, Len(body))
        tail == TrimStart(IF StartsWith(after, <<"[", "]">>)
                          THEN SubSeq(after, 3, Len(after)) ELSE after)
    IN  [isKeyValue |-> len > 0 /\ tail # <<>> /\ Head(tail) = ":",
         start |-> lead, end |-> lead + len, key |-> SubSeq(body, 1, len)]

\* a key-value line that is no root declaration and whose key is unknown
HasUnknownKey(text) ==
    /\ KeySpan(text).isKeyValue
    /\ ~StartsWith(Trim(text), SiiNunit)
    /\ KeySpan(text).key \notin RESERVED_SET

UnknownKeyLines == { k \in 1..Len(docLines) : HasUnknownKey(docLines[k]) }

IsPrimaryKind(name) ==
    /\ Len(name) >= 4
    /\ SubSeq(name, Len(name) - 3, Len(name)) \in
          { <<".", s, i1, i2>> : s \in {"s", "S"}, i1 \in {"i", "I"}, i2 \in {"i", "I"} }

\* this step is an open event or a change event of the document
IsOpenOrChange ==
    \/ vpc = "closed" /\ vpc' = "open"
    \/ vpc = "open" /\ vpc' = "open" /\ docLines' # docLines

\* C11: a document whose extension is not .sii has an empty finding set in
\* every state, whatever its text; and every open or change event that
\* happens while diagnostics are disabled leaves the finding set empty.
C11_ScopedFindings ==
    /\ []((vpc \in {"open", "closed"} /\ ~IsPrimaryKind(fileName)) => diags = <<>>)
    /\ [][(IsOpenOrChange /\ ~enableDiagnostics) => diags' = <<>>]_vars

\* C11 witness: an open .sui document with an unknown key, validated by an
\* event, without findings
C11_Witness ==
    /\ vpc = "open"
    /\ fileName = <<"a", ".", "s", "u", "i">>
    /\ languageId = "scs"
    /\ enableDiagnostics
    /\ validated = "not-sii"
    /\ \E k \in 1..Len(docLines) : HasUnknownKey(docLines[k])
    /\ diags = <<>>

-----------------------------------------------------------------------------
(* Properties of the three line readers *)

\* a reader takes the line for a key-value line with this key
AsKeyValue(r) == IF r.kind = "keyvalue" THEN <<r.key>> ELSE <<>>

\* C17: once the three readers have read a line, they agree on whether it is
\* a key-value line and on its key, and on whether it is a comment.
C17_SharedClassification ==
    (byFormatter # NotRead /\ byValidator # NotRead /\ byColors # NotRead) =>
        /\ AsKeyValue(byFormatter) = AsKeyValue(byValidator)
        /\ AsKeyValue(byFormatter) = AsKeyValue(byColors)
        /\ (byFormatter.kind = "comment") = (byValidator.kind = "comment")
        /\ (byFormatter.kind = "comment") = (byColors.kind = "comment")

=============================================================================
